---- MODULE Spec2Model ----
(***************************************************************************)
(* A model of bokeh/plotting_helpers.py: the helpers that turn the         *)
(* arguments of the high-level plotting API into ranges, axes, tools,      *)
(* glyph parameters and data source columns.                               *)
(*                                                                         *)
(* Every helper is a call-and-return function.  A call is modelled as an   *)
(* input drawn into inp, and one action that runs the whole function body  *)
(* and leaves its outcome (a returned value or a raised exception) in ret. *)
(* The caller-supplied data source is the only state that outlives a call: *)
(* it is the variable ds.                                                  *)
(*                                                                         *)
(* Python values are records [k |-> <type>, v |-> <payload>].  Objects of  *)
(* the host library carry an id: an object that existed before the call    *)
(* has an id >= 1, an object constructed by the call has id NewId.         *)
(***************************************************************************)
EXTENDS Integers, Sequences, FiniteSets, TLC

VARIABLES pc, inp, ret, ds, hist

vars == <<pc, inp, ret, ds, hist>>

(***************************************************************************)
(* Bounds of the model.                                                    *)
(***************************************************************************)
MaxRangeLen == 3
MaxToolItems == 2
MaxArgs == 3
MaxArrays == 2
MaxCalls == 2

(***************************************************************************)
(* Generic helpers.                                                        *)
(***************************************************************************)
SeqsUpTo(S, n) == UNION {[1..m -> S] : m \in 0..n}

Range(f) == {f[i] : i \in DOMAIN f}

NewId == 0

None == [k |-> "None", v |-> 0]

Return(x) == [k |-> "return", v |-> x]

Raise(exc, msg) == [k |-> "raise", v |-> exc, msg |-> msg]

Returned == pc = "done" /\ ret.k = "return"

NoCall == [k |-> "nocall", v |-> 0]

(***************************************************************************)
(* The data source, ColumnDataSource: column_names and data.               *)
(***************************************************************************)
EmptyData == [n \in {} |-> None]

ColumnDataSource(id) == [id |-> id, column_names |-> <<>>, data |-> EmptyData]

(***************************************************************************)
(* _get_range                                                              *)
(***************************************************************************)
DataRange1d == [cls |-> "DataRange1d", id |-> NewId, sources |-> <<>>]

FactorRange(factors) == [cls |-> "FactorRange", id |-> NewId, factors |-> factors]

\* Range1d's property validation: start and end are numbers or datetimes.
Range1dAccepts(start, end) ==
    /\ start.k \in {"num", "datetime"}
    /\ end.k \in {"num", "datetime"}

Range1d(start, end) == [cls |-> "Range1d", id |-> NewId, start |-> start, end |-> end]

\* isinstance(range_input, Sequence): list, tuple and str are Sequences;
\* numbers, sets and numpy arrays are not.
IsSequence(x) == x.k \in {"list", "tuple", "str"}

IsString(x) == x.k = "str"

AllStrings(items) == \A i \in DOMAIN items : IsString(items[i])

get_range_LenFirst(range_input) ==
    IF range_input.k = "None" THEN Return(DataRange1d)
    ELSE IF range_input.k = "Range" THEN Return(range_input.v)
    ELSE IF IsSequence(range_input) /\ Len(range_input.v) = 2
              /\ Range1dAccepts(range_input.v[1], range_input.v[2])
         THEN Return(Range1d(range_input.v[1], range_input.v[2]))
    ELSE IF IsSequence(range_input) /\ Len(range_input.v) # 2
              /\ AllStrings(range_input.v)
         THEN Return(FactorRange(range_input.v))
    ELSE Raise("ValueError", "Unrecognized range input")

get_range(range_input) ==
    IF range_input.k = "None" THEN Return(DataRange1d)
    ELSE IF range_input.k = "Range" THEN Return(range_input.v)
    ELSE IF IsSequence(range_input) /\ AllStrings(range_input.v)
         THEN Return(FactorRange(range_input.v))
    ELSE IF IsSequence(range_input) /\ Len(range_input.v) = 2
              /\ Range1dAccepts(range_input.v[1], range_input.v[2])
         THEN Return(Range1d(range_input.v[1], range_input.v[2]))
    ELSE Raise("ValueError", "Unrecognized range input")

\* The values a caller may put in a range sequence.
RangeItems ==
    {[k |-> "str", v |-> <<c>>] : c \in {"a", "b"}}
        \cup {[k |-> "num", v |-> n] : n \in {0, 1}}
        \cup {[k |-> "datetime", v |-> 1], [k |-> "object", v |-> 0]}

\* Range objects that exist before the call.
ExistingRanges ==
    {[cls |-> "DataRange1d", id |-> 1, sources |-> <<>>],
     [cls |-> "FactorRange", id |-> 2, factors |-> << [k |-> "str", v |-> <<"a">>] >>],
     [cls |-> "Range1d", id |-> 3, start |-> [k |-> "num", v |-> 0],
                                   end |-> [k |-> "num", v |-> 1]],
     [cls |-> "Range1d", id |-> 4, start |-> [k |-> "datetime", v |-> 1],
                                   end |-> [k |-> "datetime", v |-> 1]]}

\* A str is a Sequence whose elements are its one-character strings.
StrAsSequence(chars) ==
    [k |-> "str", v |-> [i \in DOMAIN chars |-> [k |-> "str", v |-> <<chars[i]>>]]]

RangeInputs ==
    {None}
        \cup {[k |-> "Range", v |-> r] : r \in ExistingRanges}
        \cup {[k |-> t, v |-> s] : t \in {"list", "tuple"},
                                   s \in SeqsUpTo(RangeItems, MaxRangeLen)}
        \cup {StrAsSequence(s) : s \in {<<"a", "b">>, <<"a", "b", "c">>}}
        \cup {[k |-> "num", v |-> <<>>]}
        \cup {[k |-> t, v |-> s] : t \in {"ndarray", "set"},
                                   s \in {<< [k |-> "num", v |-> 0], [k |-> "num", v |-> 1] >>,
                                          << [k |-> "str", v |-> <<"a">>] >>}}

InitRange ==
    /\ pc = "call"
    /\ inp \in RangeInputs
    /\ ret = NoCall
    /\ ds = ColumnDataSource(1)
    /\ hist = <<>>

CallGetRange ==
    /\ pc = "call"
    /\ ret' = get_range(inp)
    /\ pc' = "done"
    /\ UNCHANGED <<inp, ds, hist>>

NextRange == CallGetRange

SpecRange == InitRange /\ [][NextRange]_vars

\* The inputs of _get_range the claim tells apart.
IsStringSequence(x) == IsSequence(x) /\ AllStrings(x.v)

IsValidPair(x) ==
    /\ IsSequence(x)
    /\ ~AllStrings(x.v)
    /\ Len(x.v) = 2
    /\ Range1dAccepts(x.v[1], x.v[2])

\* C3: _get_range puts every input in exactly one class: None gives a new
\* DataRange1d, a Range object comes back as the same object, a sequence of
\* strings gives a new FactorRange with those factors, a two-element
\* sequence of valid bounds gives Range1d(start=first, end=second), and
\* every other input raises ValueError.
GetRangeClassifies ==
    pc = "done" =>
        /\ inp.k = "None" =>
               /\ ret.k = "return"
               /\ ret.v.cls = "DataRange1d"
               /\ ret.v.id = NewId
        /\ inp.k = "Range" => ret.k = "return" /\ ret.v = inp.v
        /\ IsStringSequence(inp) =>
               /\ ret.k = "return"
               /\ ret.v.cls = "FactorRange"
               /\ ret.v.id = NewId
               /\ ret.v.factors = inp.v
        /\ IsValidPair(inp) =>
               /\ ret.k = "return"
               /\ ret.v.cls = "Range1d"
               /\ ret.v.id = NewId
               /\ ret.v.start = inp.v[1]
               /\ ret.v.end = inp.v[2]
        /\ (/\ inp.k \notin {"None", "Range"}
            /\ ~IsStringSequence(inp)
            /\ ~IsValidPair(inp)) =>
               /\ ret.k = "raise"
               /\ ret.v = "ValueError"

\* A two-element list of strings has been classified: it is a FactorRange,
\* not a Range1d and not an error.
GetRangeWitness ==
    /\ pc = "done"
    /\ inp.k = "list"
    /\ Len(inp.v) = 2
    /\ AllStrings(inp.v)
    /\ ret.k = "return"
    /\ ret.v.cls = "FactorRange"

(***************************************************************************)
(* _get_axis_class                                                         *)
(*                                                                         *)
(* A string argument carries, besides its characters v, the flag same:    *)
(* whether it is the very object of the equal string literal in the        *)
(* function's code.  Python's `is` compares objects, `==` characters;      *)
(* whether two equal strings are one object depends on how the caller      *)
(* built the string (a literal is interned, a string computed at run time  *)
(* is not), so the flag is part of the input.                              *)
(***************************************************************************)
IsLiteral(x, lit) == x.k = "str" /\ x.v = lit /\ x.same

Equals(x, lit) == x.k = "str" /\ x.v = lit

\* Datetime.validate(Datetime(), value) raises ValueError unless value is a
\* datetime.
DatetimeValidates(value) == value.k = "datetime"

get_axis_class(axis_type, range_input) ==
    IF axis_type.k = "None" THEN Return("None")
    ELSE IF IsLiteral(axis_type, "linear") THEN Return("LinearAxis")
    ELSE IF IsLiteral(axis_type, "log") THEN Return("LogAxis")
    ELSE IF Equals(axis_type, "datetime") THEN Return("DatetimeAxis")
    ELSE IF Equals(axis_type, "auto") THEN
        IF range_input.cls = "FactorRange" THEN Return("CategoricalAxis")
        ELSE IF range_input.cls = "Range1d" /\ DatetimeValidates(range_input.start)
             THEN Return("DatetimeAxis")
        ELSE Return("LinearAxis")
    ELSE Raise("ValueError", "Unrecognized axis_type")

Str(v, same) == [k |-> "str", v |-> v, same |-> same]

AxisTypeNames == {"linear", "log", "datetime", "auto"}

AxisTypeInputs ==
    {[k |-> "None", v |-> "", same |-> FALSE], [k |-> "num", v |-> "", same |-> FALSE]}
        \cup {Str(v, same) : v \in AxisTypeNames \cup {"foo", ""}, same \in BOOLEAN}

InitAxis ==
    /\ pc = "call"
    /\ inp \in [axis_type : AxisTypeInputs, range_input : ExistingRanges]
    /\ ret = NoCall
    /\ ds = ColumnDataSource(1)
    /\ hist = <<>>

CallGetAxisClass ==
    /\ pc = "call"
    /\ ret' = get_axis_class(inp.axis_type, inp.range_input)
    /\ pc' = "done"
    /\ UNCHANGED <<inp, ds, hist>>

NextAxis == CallGetAxisClass

SpecAxis == InitAxis /\ [][NextAxis]_vars

\* The axis class "auto" selects for a range.
AutoAxisClass(range_input) ==
    IF range_input.cls = "FactorRange" THEN "CategoricalAxis"
    ELSE IF range_input.cls = "Range1d" /\ DatetimeValidates(range_input.start)
         THEN "DatetimeAxis"
    ELSE "LinearAxis"

\* C4: _get_axis_class returns None for None, LinearAxis for any string equal
\* to "linear", LogAxis for any string equal to "log", DatetimeAxis for
\* "datetime", for "auto" the class the range selects, and raises ValueError
\* exactly for the values outside {None, "linear", "log", "datetime", "auto"}.
AxisClassByValue ==
    pc = "done" =>
        /\ inp.axis_type.k = "None" => ret = Return("None")
        /\ Equals(inp.axis_type, "linear") => ret = Return("LinearAxis")
        /\ Equals(inp.axis_type, "log") => ret = Return("LogAxis")
        /\ Equals(inp.axis_type, "datetime") => ret = Return("DatetimeAxis")
        /\ Equals(inp.axis_type, "auto") => ret = Return(AutoAxisClass(inp.range_input))
        /\ (ret.k = "raise" /\ ret.v = "ValueError") <=>
               ~(\/ inp.axis_type.k = "None"
                 \/ inp.axis_type.k = "str" /\ inp.axis_type.v \in AxisTypeNames)

(***************************************************************************)
(* Strings of the tools argument: sequences of characters.                *)
(***************************************************************************)
s_pan == <<"p", "a", "n">>
s_xpan == <<"x", "p", "a", "n">>
s_ypan == <<"y", "p", "a", "n">>
s_wheel_zoom == <<"w", "h", "e", "e", "l", "_", "z", "o", "o", "m">>
s_xwheel_zoom == <<"x", "w", "h", "e", "e", "l", "_", "z", "o", "o", "m">>
s_ywheel_zoom == <<"y", "w", "h", "e", "e", "l", "_", "z", "o", "o", "m">>
s_save == <<"s", "a", "v", "e">>
s_resize == <<"r", "e", "s", "i", "z", "e">>
s_click == <<"c", "l", "i", "c", "k">>
s_crosshair == <<"c", "r", "o", "s", "s", "h", "a", "i", "r">>
s_select == <<"s", "e", "l", "e", "c", "t">>
s_box_zoom == <<"b", "o", "x", "_", "z", "o", "o", "m">>
s_hover == <<"h", "o", "v", "e", "r">>
s_previewsave == <<"p", "r", "e", "v", "i", "e", "w", "s", "a", "v", "e">>
s_embed == <<"e", "m", "b", "e", "d">>
s_reset == <<"r", "e", "s", "e", "t">>
s_object_explorer == <<"o", "b", "j", "e", "c", "t", "_", "e", "x", "p", "l", "o", "r", "e", "r">>
s_zoom == <<"z", "o", "o", "m">>
s_empty == <<>>
s_save_padded == <<" ", "s", "a", "v", "e", " ">>
s_panorama == <<"p", "a", "n", "o", "r", "a", "m", "a">>
s_zoomed == <<"z", "o", "o", "m", "e", "d">>
s_foo == <<"f", "o", "o">>

IsSpace(c) == c \in {" ", "\t", "\n"}

\* str.strip()
RECURSIVE LStrip(_)
LStrip(s) == IF s # <<>> /\ IsSpace(Head(s)) THEN LStrip(Tail(s)) ELSE s

RECURSIVE RStrip(_)
RStrip(s) ==
    IF s # <<>> /\ IsSpace(s[Len(s)]) THEN RStrip(SubSeq(s, 1, Len(s) - 1)) ELSE s

Strip(s) == RStrip(LStrip(s))

\* sub in s
Contains(sub, s) ==
    \E i \in 0..(Len(s) - Len(sub)) : SubSeq(s, i + 1, i + Len(sub)) = sub

\* The number of whitespace characters of s that end right before index i,
\* and that start right after it.
RECURSIVE SpacesBefore(_, _)
SpacesBefore(s, i) ==
    IF i > 1 /\ IsSpace(s[i - 1]) THEN 1 + SpacesBefore(s, i - 1) ELSE 0

RECURSIVE SpacesAfter(_, _)
SpacesAfter(s, i) ==
    IF i < Len(s) /\ IsSpace(s[i + 1]) THEN 1 + SpacesAfter(s, i + 1) ELSE 0

\* re.split(r"\s*,\s*", s): the leftmost match starts at the whitespace that
\* precedes the first comma and takes all the whitespace that follows it.
RECURSIVE ReSplit(_)
ReSplit(s) ==
    IF \A i \in DOMAIN s : s[i] # ","
    THEN <<s>>
    ELSE LET i == CHOOSE j \in DOMAIN s :
                      s[j] = "," /\ \A h \in 1..(j - 1) : s[h] # ","
             first == i - SpacesBefore(s, i)
             last == i + SpacesAfter(s, i)
         IN  <<SubSeq(s, 1, first - 1)>> \o ReSplit(SubSeq(s, last + 1, Len(s)))

\* ",".join(items)
RECURSIVE Join(_)
Join(items) ==
    IF items = <<>> THEN <<>>
    ELSE IF Len(items) = 1 THEN items[1]
    ELSE items[1] \o <<",">> \o Join(Tail(items))

(***************************************************************************)
(* _get_num_minor_ticks                                                    *)
(***************************************************************************)
get_num_minor_ticks(axis_class, num_minor_ticks) ==
    IF num_minor_ticks.k = "int" THEN
        IF num_minor_ticks.v <= 1
        THEN Raise("ValueError", "num_minor_ticks must be > 1")
        ELSE Return(num_minor_ticks.v)
    ELSE IF num_minor_ticks.k = "None" THEN Return(0)
    ELSE IF num_minor_ticks.k = "str" /\ num_minor_ticks.v = "auto" THEN
        IF axis_class = "LogAxis" THEN Return(10) ELSE Return(5)
    ELSE Return("None")

(***************************************************************************)
(* _new_xy_plot                                                            *)
(***************************************************************************)
Tool(cls, dimensions) == [cls |-> cls, id |-> NewId, dimensions |-> dimensions]

NoTool == Tool("", <<>>)

\* The if/elif chain over the tool name; NoTool stands for its else branch.
MakeTool(tool) ==
    CASE tool = s_pan -> Tool("PanTool", <<"width", "height">>)
      [] tool = s_xpan -> Tool("PanTool", <<"width">>)
      [] tool = s_ypan -> Tool("PanTool", <<"height">>)
      [] tool = s_wheel_zoom -> Tool("WheelZoomTool", <<"width", "height">>)
      [] tool = s_xwheel_zoom -> Tool("WheelZoomTool", <<"width">>)
      [] tool = s_ywheel_zoom -> Tool("WheelZoomTool", <<"height">>)
      [] tool = s_save -> Tool("PreviewSaveTool", <<>>)
      [] tool = s_resize -> Tool("ResizeTool", <<>>)
      [] tool = s_click -> Tool("ClickTool", <<>>)
      [] tool = s_crosshair -> Tool("CrosshairTool", <<>>)
      [] tool = s_select -> Tool("BoxSelectTool", <<>>)
      [] tool = s_box_zoom -> Tool("BoxZoomTool", <<>>)
      [] tool = s_hover -> Tool("HoverTool", <<>>)
      [] tool = s_previewsave -> Tool("PreviewSaveTool", <<>>)
      [] tool = s_embed -> Tool("EmbedTool", <<>>)
      [] tool = s_reset -> Tool("ResetTool", <<>>)
      [] tool = s_object_explorer -> Tool("ObjectExplorerTool", <<>>)
      [] OTHER -> NoTool

\* select and box_zoom also append a BoxSelectionOverlay to p.renderers.
HasOverlay(tool) == tool \in {s_select, s_box_zoom}

BoxSelectionOverlay(tool_obj) == [cls |-> "BoxSelectionOverlay", tool |-> tool_obj]

\* The type names that occur more than once among tool_objs.
RepeatedTypes(tool_objs) ==
    {tool_objs[i].cls : i \in {h \in DOMAIN tool_objs :
        \E j \in DOMAIN tool_objs : j # h /\ tool_objs[j].cls = tool_objs[h].cls}}

\* The pan/zoom test of the categorical case: a substring test on the token.
IsPanZoomToken(tool) == Contains(s_pan, tool) \/ Contains(s_zoom, tool)

\* Lines 340-348: a list is split into its Tool objects and a string of its
\* string items, each followed by a comma.
RECURSIVE SplitToolList(_, _)
SplitToolList(items, acc) ==
    IF items = <<>> THEN acc
    ELSE LET tool == Head(items) IN
         IF tool.k = "Tool"
         THEN SplitToolList(Tail(items), [acc EXCEPT !.tool_objs = Append(@, tool.v)])
         ELSE IF tool.k = "str"
         THEN SplitToolList(Tail(items),
                            [acc EXCEPT !.temp_tool_str = @ \o tool.v \o <<",">>])
         ELSE [acc EXCEPT !.raised = TRUE]

\* Lines 356-425: the loop over the tokens of the tools string.
RECURSIVE ToolLoop(_, _, _)
ToolLoop(tokens, remove_pan_zoom, st) ==
    IF tokens = <<>> THEN st
    ELSE LET tool == Head(tokens) IN
         IF remove_pan_zoom /\ IsPanZoomToken(tool)
         THEN ToolLoop(Tail(tokens), remove_pan_zoom,
                       [st EXCEPT !.removing = Append(@, tool)])
         ELSE IF tool = s_empty
         THEN ToolLoop(Tail(tokens), remove_pan_zoom, st)
         ELSE IF MakeTool(tool) = NoTool
         THEN [st EXCEPT !.raised = TRUE]
         ELSE LET tool_objs == Append(st.tool_objs, MakeTool(tool))
                  repeated == RepeatedTypes(tool_objs)
              IN  ToolLoop(Tail(tokens), remove_pan_zoom,
                    [st EXCEPT
                       !.tool_objs = tool_objs,
                       !.renderers = IF HasOverlay(tool)
                                     THEN Append(@, BoxSelectionOverlay(MakeTool(tool)))
                                     ELSE @,
                       !.warnings = IF repeated # {}
                                    THEN Append(@, [k |-> "repeated", v |-> repeated])
                                    ELSE @])

Plot ==
    [title |-> "Plot", x_range |-> None, y_range |-> None,
     x_mapper_type |-> "auto", y_mapper_type |-> "auto",
     above |-> <<>>, below |-> <<>>, left |-> <<>>, right |-> <<>>,
     tools |-> <<>>, renderers |-> <<>>]

Axis(cls, location, num_minor_ticks) ==
    [cls |-> cls, location |-> location, bounds |-> "auto",
     num_minor_ticks |-> num_minor_ticks]

\* Lines 291-304 and 306-319: the axis of one dimension is added to the plot.
\* dim is "x" or "y"; the result is the plot, or the exception raised.
AddAxis(p, dim, axis_type, location, minor_ticks) ==
    LET range == IF dim = "x" THEN p.x_range ELSE p.y_range
        axiscls == get_axis_class(axis_type, range)
    IN  IF axiscls.k = "raise" THEN axiscls
        ELSE IF axiscls.v = "None" THEN Return(p)
        ELSE LET ticks == get_num_minor_ticks(axiscls.v, minor_ticks)
                 axis == Axis(axiscls.v, location, ticks.v)
                 p1 == IF axiscls.v # "LogAxis" THEN p
                       ELSE IF dim = "x" THEN [p EXCEPT !.x_mapper_type = "log"]
                       ELSE [p EXCEPT !.y_mapper_type = "log"]
             IN  IF ticks.k = "raise" THEN ticks
                 ELSE IF dim = "x" /\ location = "top"
                 THEN Return([p1 EXCEPT !.above = Append(@, axis)])
                 ELSE IF dim = "x" /\ location = "bottom"
                 THEN Return([p1 EXCEPT !.below = Append(@, axis)])
                 ELSE IF dim = "y" /\ location = "left"
                 THEN Return([p1 EXCEPT !.left = Append(@, axis)])
                 ELSE IF dim = "y" /\ location = "right"
                 THEN Return([p1 EXCEPT !.right = Append(@, axis)])
                 ELSE Return(p1)

\* Lines 337-433: the tools are added to the plot p.
AddTools(p, tools) ==
    LET start == [tool_objs |-> <<>>, temp_tool_str |-> <<>>, raised |-> FALSE]
        split == IF tools.k = "list" THEN SplitToolList(tools.v, start) ELSE start
        tools_str == IF tools.k = "list" THEN split.temp_tool_str ELSE tools.v
        remove_pan_zoom == p.x_range.cls = "FactorRange" \/ p.y_range.cls = "FactorRange"
        done == ToolLoop(ReSplit(Strip(tools_str)), remove_pan_zoom,
                         [tool_objs |-> split.tool_objs, renderers |-> p.renderers,
                          removing |-> <<>>, warnings |-> <<>>, raised |-> FALSE])
    IN  IF split.raised
        THEN Raise("ValueError", "tool should be a valid str or Tool Object")
        ELSE IF done.raised THEN Raise("ValueError", "invalid tool")
        ELSE [k |-> "return",
              v |-> [p EXCEPT !.tools = @ \o done.tool_objs,
                              !.renderers = done.renderers],
              warnings |-> IF done.removing # <<>>
                           THEN Append(done.warnings,
                                       [k |-> "removing", v |-> done.removing])
                           ELSE done.warnings]

new_xy_plot(a) ==
    LET x_range == get_range(a.x_range)
        y_range == get_range(a.y_range)
        p0 == [Plot EXCEPT !.x_range = x_range.v, !.y_range = y_range.v]
        p1 == AddAxis(p0, "x", a.x_axis_type, a.x_axis_location, a.x_minor_ticks)
        p2 == AddAxis(p1.v, "y", a.y_axis_type, a.y_axis_location, a.y_minor_ticks)
    IN  IF x_range.k = "raise" THEN x_range
        ELSE IF y_range.k = "raise" THEN y_range
        ELSE IF p1.k = "raise" THEN p1
        ELSE IF p2.k = "raise" THEN p2
        ELSE AddTools(p2.v, a.tools)

\* The names the if/elif chain of _new_xy_plot recognizes.
KnownToolNames ==
    {s_pan, s_xpan, s_ypan, s_wheel_zoom, s_xwheel_zoom, s_ywheel_zoom, s_save,
     s_resize, s_click, s_crosshair, s_select, s_box_zoom, s_hover, s_previewsave,
     s_embed, s_reset, s_object_explorer}

\* The default of the tools parameter.
DefaultTools ==
    [k |-> "str",
     v |-> Join(<<s_pan, s_wheel_zoom, s_box_zoom, s_save, s_resize, s_select, s_reset>>)]

ToolVocabulary ==
    KnownToolNames \cup {s_empty, s_save_padded, s_panorama, s_zoomed, s_foo}

ListVocabulary ==
    {s_pan, s_save, s_box_zoom, s_reset, s_empty, s_save_padded, s_panorama, s_foo,
     Join(<<s_hover, s_xpan>>)}

\* Tool objects that exist before the call.
ToolObjects ==
    {[cls |-> "PanTool", id |-> 1, dimensions |-> <<"width">>],
     [cls |-> "ResetTool", id |-> 2, dimensions |-> <<>>],
     [cls |-> "BoxZoomTool", id |-> 3, dimensions |-> <<>>]}

ToolListItems ==
    {[k |-> "str", v |-> t] : t \in ListVocabulary}
        \cup {[k |-> "Tool", v |-> o] : o \in ToolObjects}
        \cup {[k |-> "num", v |-> <<>>]}

ToolsInputs ==
    {[k |-> "str", v |-> Join(items)] : items \in SeqsUpTo(ToolVocabulary, MaxToolItems)}
        \cup {[k |-> "list", v |-> items] : items \in SeqsUpTo(ToolListItems, MaxToolItems)}
        \cup {DefaultTools}

PlotRangeInputs ==
    {None,
     [k |-> "list", v |-> << [k |-> "str", v |-> <<"a">>], [k |-> "str", v |-> <<"b">>] >>],
     [k |-> "list", v |-> << [k |-> "num", v |-> 0], [k |-> "num", v |-> 1] >>]}

PlotAxisTypeInputs ==
    {Str("auto", TRUE), Str("log", TRUE), [k |-> "None", v |-> "", same |-> FALSE]}

\* The arguments of a call; the parameters not drawn here keep their defaults.
PlotInputs ==
    [x_range : PlotRangeInputs, y_range : PlotRangeInputs,
     x_axis_type : PlotAxisTypeInputs, y_axis_type : {Str("auto", TRUE)},
     x_axis_location : {"bottom"}, y_axis_location : {"left"},
     x_minor_ticks : {[k |-> "str", v |-> "auto"]},
     y_minor_ticks : {[k |-> "str", v |-> "auto"]},
     tools : ToolsInputs]

InitPlot ==
    /\ pc = "call"
    /\ inp \in PlotInputs
    /\ ret = NoCall
    /\ ds = ColumnDataSource(1)
    /\ hist = <<>>

CallNewXYPlot ==
    /\ pc = "call"
    /\ ret' = new_xy_plot(inp)
    /\ pc' = "done"
    /\ UNCHANGED <<inp, ds, hist>>

NextPlot == CallNewXYPlot

SpecPlot == InitPlot /\ [][NextPlot]_vars

\* The tokens a tools specification is made of: those of the string, or of
\* every string item of the list.
RECURSIVE TokensOfItems(_)
TokensOfItems(items) ==
    IF items = <<>> THEN <<>>
    ELSE IF Head(items).k = "str"
    THEN ReSplit(Strip(Head(items).v)) \o TokensOfItems(Tail(items))
    ELSE TokensOfItems(Tail(items))

TokensOf(tools) ==
    IF tools.k = "str" THEN ReSplit(Strip(tools.v)) ELSE TokensOfItems(tools.v)

HasUnknownToken(tools) ==
    \E i \in DOMAIN TokensOf(tools) :
        TokensOf(tools)[i] # s_empty /\ TokensOf(tools)[i] \notin KnownToolNames

HasBadListItem(tools) ==
    tools.k = "list" /\ \E i \in DOMAIN tools.v : tools.v[i].k \notin {"str", "Tool"}

\* C1: _new_xy_plot raises ValueError and returns no plot for every tools
\* specification that contains a non-empty token which is not a recognized
\* tool name, whatever the x and y ranges are; empty tokens are ignored
\* without error.
UnknownToolRaises ==
    pc = "done" =>
        /\ HasUnknownToken(inp.tools) => ret.k = "raise" /\ ret.v = "ValueError"
        /\ (~HasUnknownToken(inp.tools) /\ ~HasBadListItem(inp.tools)) => ret.k = "return"

\* C1 where the code agrees with it: on a plot without a categorical range.
UnknownToolRaisesNumeric ==
    (pc = "done" /\ get_range(inp.x_range).v.cls # "FactorRange"
                 /\ get_range(inp.y_range).v.cls # "FactorRange") =>
        /\ HasUnknownToken(inp.tools) => ret.k = "raise" /\ ret.v = "ValueError"
        /\ (~HasUnknownToken(inp.tools) /\ ~HasBadListItem(inp.tools)) => ret.k = "return"

PanZoomClasses == {"PanTool", "WheelZoomTool", "BoxZoomTool"}

NotPanZoom(tool_obj) == tool_obj.cls \notin PanZoomClasses

\* The tools a specification requests, in the order it requests them.
RECURSIVE ToolsOfTokens(_)
ToolsOfTokens(tokens) ==
    IF tokens = <<>> THEN <<>>
    ELSE IF Head(tokens) = s_empty THEN ToolsOfTokens(Tail(tokens))
    ELSE <<MakeTool(Head(tokens))>> \o ToolsOfTokens(Tail(tokens))

RECURSIVE RequestedOfItems(_)
RequestedOfItems(items) ==
    IF items = <<>> THEN <<>>
    ELSE IF Head(items).k = "Tool"
    THEN <<Head(items).v>> \o RequestedOfItems(Tail(items))
    ELSE ToolsOfTokens(ReSplit(Strip(Head(items).v))) \o RequestedOfItems(Tail(items))

RequestedTools(tools) ==
    IF tools.k = "str" THEN ToolsOfTokens(ReSplit(Strip(tools.v)))
    ELSE RequestedOfItems(tools.v)

\* The requested names of pan and zoom tools, in order.
IsPanZoomName(token) == MakeTool(token).cls \in PanZoomClasses

RemovedNames(tools) == SelectSeq(TokensOf(tools), IsPanZoomName)

IsRemovalWarning(w) == w.k = "removing"

IsCategorical(p) == p.x_range.cls = "FactorRange" \/ p.y_range.cls = "FactorRange"

\* C5: when the x range or the y range of the plot is a FactorRange, the
\* returned plot has no PanTool, WheelZoomTool or BoxZoomTool, whatever the
\* form of the tools argument; every other requested tool is present, in the
\* requested order, and the removed names are reported in one warning.
CategoricalPlotHasNoPanZoom ==
    (Returned /\ IsCategorical(ret.v)) =>
        /\ \A i \in DOMAIN ret.v.tools : NotPanZoom(ret.v.tools[i])
        /\ ret.v.tools = SelectSeq(RequestedTools(inp.tools), NotPanZoom)
        /\ SelectSeq(ret.warnings, IsRemovalWarning) =
               IF RemovedNames(inp.tools) = <<>> THEN <<>>
               ELSE << [k |-> "removing", v |-> RemovedNames(inp.tools)] >>

\* C5 where the code agrees with it: the tools argument holds no Tool object
\* and no unknown name.
CategoricalPlotHasNoPanZoomNames ==
    (/\ Returned
     /\ IsCategorical(ret.v)
     /\ ~HasUnknownToken(inp.tools)
     /\ inp.tools.k = "list" => \A i \in DOMAIN inp.tools.v : inp.tools.v[i].k = "str") =>
        /\ \A i \in DOMAIN ret.v.tools : NotPanZoom(ret.v.tools[i])
        /\ ret.v.tools = SelectSeq(RequestedTools(inp.tools), NotPanZoom)
        /\ SelectSeq(ret.warnings, IsRemovalWarning) =
               IF RemovedNames(inp.tools) = <<>> THEN <<>>
               ELSE << [k |-> "removing", v |-> RemovedNames(inp.tools)] >>

(***************************************************************************)
(* ColumnDataSource.add(data, name=None): appends the column and returns   *)
(* its name; without a name the column is called "Series <n>", n the first *)
(* number from len(data) on that is not taken.                             *)
(***************************************************************************)
SeriesNames ==
    <<"Series 0", "Series 1", "Series 2", "Series 3",
      "Series 4", "Series 5", "Series 6", "Series 7",
      "Series 8", "Series 9", "Series 10", "Series 11",
      "Series 12", "Series 13", "Series 14", "Series 15",
      "Series 16", "Series 17", "Series 18", "Series 19",
      "Series 20", "Series 21", "Series 22", "Series 23",
      "Series 24", "Series 25", "Series 26", "Series 27",
      "Series 28", "Series 29", "Series 30", "Series 31">>

RECURSIVE FreeSeries(_, _)
FreeSeries(data, n) ==
    IF SeriesNames[n + 1] \in DOMAIN data THEN FreeSeries(data, n + 1)
    ELSE SeriesNames[n + 1]

DictSet(d, key, val) == [n \in DOMAIN d \cup {key} |-> IF n = key THEN val ELSE d[n]]

AddNamed(source, data, name) ==
    [source EXCEPT !.column_names = Append(@, name),
                   !.data = DictSet(@, name, data)]

AddSeries(source, data) ==
    AddNamed(source, data, FreeSeries(source.data, Cardinality(DOMAIN source.data)))

(***************************************************************************)
(* _match_data_params                                                      *)
(***************************************************************************)
PyStr(v) == [k |-> "str", v |-> v]

PyDict(d) == [k |-> "dict", v |-> d]

\* The attribute names of the model, in the order sorted() gives them.
NameOrder ==
    <<"fill_color", "fill_color_units", "size", "size_units", "x", "x_units", "y">>

Sorted(names) == SelectSeq(NameOrder, LAMBDA n : n \in names)

Reversed(names) ==
    [i \in 1..Len(Sorted(names)) |-> Sorted(names)[Len(Sorted(names)) + 1 - i]]

\* sorted(attributes.keys())
ProcessingOrder(names) == Sorted(names)

\* var.endswith("_units") and var[:-6]
EndsWithUnits(var) == var \in {"fill_color_units", "size_units", "x_units"}

WithoutUnits(var) ==
    CASE var = "fill_color_units" -> "fill_color"
      [] var = "size_units" -> "size"
      [] var = "x_units" -> "x"
      [] OTHER -> var

IsUnitsOf(var, dataspecs) == EndsWithUnits(var) /\ WithoutUnits(var) \in DOMAIN dataspecs

\* ColorSpec.isconst(val): a color name, a hex string or an RGB(A) tuple.
IsColorConst(val) == (val.k = "str" /\ val.v \in {"red"}) \/ val.k = "tuple"

\* getattr(dataspecs[var], 'units', 'data')
UnitsOf(dataspec) == IF "units" \in DOMAIN dataspec THEN dataspec.units ELSE "data"

\* Lines 72-78: the positional arguments, then the keyword arguments of the
\* names the positionals do not reach.
Zip(argnames, args) ==
    [n \in {argnames[i] : i \in 1..(IF Len(args) < Len(argnames)
                                     THEN Len(args) ELSE Len(argnames))} |->
        args[CHOOSE i \in DOMAIN argnames : argnames[i] = n]]

RestNames(argnames, args) ==
    IF Len(args) < Len(argnames)
    THEN SubSeq(argnames, Len(args) + 1, Len(argnames))
    ELSE <<>>

MissingNames(argnames, args, kwargs) ==
    SelectSeq(RestNames(argnames, args), LAMBDA n : n \notin DOMAIN kwargs)

\* Lines 82-84: the keyword arguments that name a dataspec or its units.
\* popped are the names already taken by kwargs.pop.
Attributes(argnames, dataspecs, args, kwargs) ==
    LET zipped == Zip(argnames, args)
        popped == Range(RestNames(argnames, args))
        left == DOMAIN kwargs \ popped
        taken == {kw \in left : IsUnitsOf(kw, dataspecs) \/ kw \in DOMAIN dataspecs}
    IN  [n \in DOMAIN zipped \cup popped \cup taken |->
            IF n \in taken \cup popped THEN kwargs[n] ELSE zipped[n]]

\* Lines 90-107: the units of an attribute that is already in glyph_params.
SetUnits(curval, val) ==
    IF curval.k # "dict" THEN
        IF curval.k = "str"
        THEN PyDict([field |-> curval, units |-> val])
        ELSE PyDict([value |-> curval, units |-> val])
    ELSE PyDict(DictSet(curval.v, "units", val))

FieldOf(name, dataspec) == PyDict([field |-> PyStr(name), units |-> PyStr(UnitsOf(dataspec))])

\* Lines 87-139: one attribute after the other; st is glyph_params, the data
\* source and the exception raised, if any.
RECURSIVE ProcessAttributes(_, _, _, _)
ProcessAttributes(order, attributes, env, st) ==
    IF order = <<>> THEN st
    ELSE
    LET var == Head(order)
        val == attributes[var]
        dataspecs == env.glyphclass.dataspecs
        go(glyph_val, source) ==
            ProcessAttributes(Tail(order), attributes, env,
                [st EXCEPT !.glyph_params = DictSet(@, var, glyph_val),
                           !.datasource = source])
        stop(msg) == [st EXCEPT !.raised = Raise("RuntimeError", msg)]
    IN  IF IsUnitsOf(var, dataspecs) THEN
            IF WithoutUnits(var) \notin DOMAIN st.glyph_params
            THEN stop(<<"Cannot set units on undefined field", WithoutUnits(var)>>)
            ELSE ProcessAttributes(Tail(order), attributes, env,
                    [st EXCEPT !.glyph_params[WithoutUnits(var)] = SetUnits(@, val)])
        ELSE IF val.k \in {"dict", "num"} THEN go(val, st.datasource)
        ELSE IF /\ var \in DOMAIN dataspecs
                /\ dataspecs[var].cls = "ColorSpec"
                /\ (IsColorConst(val) \/ val.k = "None")
             THEN go(val, st.datasource)
        ELSE IF val.k = "str" THEN
            IF env.glyphclass.name = "Text"
            THEN go([k |-> "list", v |-> <<val>>], st.datasource)
            ELSE IF /\ env.serversource.k = "None"
                    /\ val.v \notin Range(st.datasource.column_names)
            THEN stop(<<"Column name does not appear in data source", val.v>>)
            ELSE go(FieldOf(val.v, dataspecs[var]),
                    IF val.v \notin Range(st.datasource.column_names)
                    THEN AddNamed(st.datasource, [k |-> "list", v |-> <<>>], val.v)
                    ELSE st.datasource)
        ELSE IF val.k = "ndarray" THEN
            IF val.ndim # 1
            THEN stop(<<"Columns need to be 1D", var>>)
            ELSE go(FieldOf(var, dataspecs[var]), AddNamed(st.datasource, val, var))
        ELSE IF val.k \in {"list", "tuple"}
             THEN go(FieldOf(var, dataspecs[var]), AddNamed(st.datasource, val, var))
        ELSE stop(<<"Unexpected column type", val.k>>)

match_data_params(argnames, glyphclass, datasource, serversource, args, kwargs) ==
    LET missing == MissingNames(argnames, args, kwargs)
        attributes == Attributes(argnames, glyphclass.dataspecs, args, kwargs)
        done == ProcessAttributes(ProcessingOrder(DOMAIN attributes), attributes,
                    [glyphclass |-> glyphclass, serversource |-> serversource],
                    [glyph_params |-> EmptyData, datasource |-> datasource,
                     raised |-> NoCall])
    IN  IF missing # <<>>
        THEN [ret |-> Raise("RuntimeError",
                            <<"Missing required glyph parameter", missing[1]>>),
              datasource |-> datasource]
        ELSE IF done.raised # NoCall
        THEN [ret |-> done.raised, datasource |-> done.datasource]
        ELSE [ret |-> Return(done.glyph_params), datasource |-> done.datasource]

\* The glyph classes of the model, with the dataspecs (dataspecs_with_refs)
\* among the names of NameOrder.
Circle ==
    [name |-> "Circle",
     dataspecs |-> [x |-> [cls |-> "DataSpec", units |-> "data"],
                    y |-> [cls |-> "DataSpec", units |-> "data"],
                    size |-> [cls |-> "DataSpec", units |-> "screen"],
                    fill_color |-> [cls |-> "ColorSpec"]]]

Text ==
    [name |-> "Text",
     dataspecs |-> [x |-> [cls |-> "DataSpec", units |-> "data"],
                    y |-> [cls |-> "DataSpec", units |-> "data"],
                    fill_color |-> [cls |-> "ColorSpec"]]]

Absent == [k |-> "absent", v |-> 0]

Num(n) == [k |-> "num", v |-> n]

PyList(items) == [k |-> "list", v |-> items]

\* The data source the caller passes: it has the column "colA".
CallerSource ==
    [id |-> 1, column_names |-> <<"colA">>,
     data |-> [n \in {"colA"} |-> PyList(<<1, 2>>)]]

ArgValues == {Num(5), PyStr("colA"), PyList(<<3, 4>>)}

SizeValues ==
    {Num(7), PyStr("colA"), PyStr("nocol"), PyList(<<3, 4>>),
     PyDict([value |-> Num(7)]),
     [k |-> "ndarray", v |-> <<>>, ndim |-> 2], [k |-> "object", v |-> 0]}

UnitsValues == {PyStr("screen")}

\* A keyword argument is absent or has one of its values.
KwargsChoices ==
    [x : {Absent, Num(7)}, y : {Absent, Num(7)},
     size : {Absent} \cup SizeValues,
     size_units : {Absent} \cup UnitsValues,
     x_units : {Absent} \cup UnitsValues,
     fill_color : {Absent, PyStr("red"), None},
     fill_color_units : {Absent} \cup UnitsValues]

Kwargs(choice) == [n \in {m \in DOMAIN choice : choice[m] # Absent} |-> choice[n]]

MatchInputs ==
    [argnames : {<<"x">>, <<"x", "y">>},
     glyphclass : {Circle, Text},
     serversource : {None, [k |-> "ServerDataSource", v |-> 0]},
     args : SeqsUpTo(ArgValues, MaxArgs),
     kwargs : {Kwargs(c) : c \in KwargsChoices}]

InitMatch ==
    /\ pc = "call"
    /\ inp \in MatchInputs
    /\ ret = NoCall
    /\ ds = CallerSource
    /\ hist = <<>>

CallMatchDataParams ==
    /\ pc = "call"
    /\ LET out == match_data_params(inp.argnames, inp.glyphclass, ds,
                                    inp.serversource, inp.args, inp.kwargs)
       IN  ret' = out.ret /\ ds' = out.datasource
    /\ pc' = "done"
    /\ UNCHANGED <<inp, hist>>

NextMatch == CallMatchDataParams

SpecMatch == InitMatch /\ [][NextMatch]_vars

\* What a call supplies: a name of argnames has a positional value when a
\* positional argument reaches it, and a keyword value when kwargs names it.
HasPositional(name) ==
    \E i \in DOMAIN inp.argnames : inp.argnames[i] = name /\ i <= Len(inp.args)

PositionalValue(name) ==
    inp.args[CHOOSE i \in DOMAIN inp.argnames : inp.argnames[i] = name]

HasKeyword(name) == name \in DOMAIN inp.kwargs

IsSupplied(name) == HasPositional(name) \/ HasKeyword(name)

SuppliedValues(name) ==
    {PositionalValue(name) : i \in {1} \cap {IF HasPositional(name) THEN 1 ELSE 0}}
        \cup {inp.kwargs[name] : i \in {1} \cap {IF HasKeyword(name) THEN 1 ELSE 0}}

NeitherSupplied == SelectSeq(inp.argnames, LAMBDA n : ~IsSupplied(n))

\* C2: _match_data_params returns normally only when every name in argnames
\* receives exactly one value, positional or (past the positionals) keyword;
\* a required name supplied by neither raises RuntimeError naming the first
\* such name, and more positional arguments than names raise an error too.
MatchRejectsMismatch ==
    pc = "done" =>
        /\ ret.k = "return" =>
               \A i \in DOMAIN inp.argnames :
                   HasPositional(inp.argnames[i]) # HasKeyword(inp.argnames[i])
        /\ NeitherSupplied # <<>> =>
               /\ ret.k = "raise"
               /\ ret.v = "RuntimeError"
               /\ ret.msg = <<"Missing required glyph parameter", NeitherSupplied[1]>>
        /\ Len(inp.args) > Len(inp.argnames) => ret.k = "raise"

\* C2 where the code agrees with it: the missing required name.
MatchRejectsMissing ==
    (pc = "done" /\ NeitherSupplied # <<>>) =>
        /\ ret.k = "raise"
        /\ ret.v = "RuntimeError"
        /\ ret.msg = <<"Missing required glyph parameter", NeitherSupplied[1]>>

\* The units attribute of a dataspec name.
UnitsName(d) ==
    CASE d = "fill_color" -> "fill_color_units"
      [] d = "size" -> "size_units"
      [] d = "x" -> "x_units"
      [] OTHER -> ""

\* The dataspec names of the call's glyph class that have a units attribute
\* among the names of the model.
DataspecsWithUnits == {d \in DOMAIN inp.glyphclass.dataspecs : UnitsName(d) # ""}

BothSupplied(d) == IsSupplied(d) /\ HasKeyword(UnitsName(d))

\* A string that the Text glyph class wraps: every string but a color
\* constant of a ColorSpec.
IsWrappedByText(d, val) ==
    /\ inp.glyphclass.name = "Text"
    /\ val.k = "str"
    /\ ~(inp.glyphclass.dataspecs[d].cls = "ColorSpec" /\ IsColorConst(val))

\* The "field" or "value" entry the claim gives the dict made for the value
\* val of d: "field" for a string (the string) or a column (the name d),
\* "value" for a constant.
HasFieldOrValue(dict, d, val) ==
    /\ val.k = "str" => "field" \in DOMAIN dict /\ dict.field = val
    /\ val.k \in {"list", "tuple", "ndarray"} =>
           "field" \in DOMAIN dict /\ dict.field = PyStr(d)
    /\ val.k \in {"num", "None"} => "value" \in DOMAIN dict /\ dict.value = val

\* The same, with the strings the Text glyph class wraps in a list stored
\* under "value".
HasFieldOrValueText(dict, d, val) ==
    IF IsWrappedByText(d, val)
    THEN "value" \in DOMAIN dict /\ dict.value = PyList(<<val>>)
    ELSE HasFieldOrValue(dict, d, val)

\* Nothing but the missing d can make the call fail: no required name is
\* missing, every other value is a number, and every other units attribute
\* has its dataspec supplied.
OnlyUnitsUndefined(d) ==
    /\ NeitherSupplied = <<>>
    /\ \A i \in DOMAIN inp.args : inp.args[i].k = "num"
    /\ \A n \in DOMAIN inp.kwargs :
           IF EndsWithUnits(n) THEN n = UnitsName(d) \/ IsSupplied(WithoutUnits(n))
           ELSE inp.kwargs[n].k = "num"

UndefinedField(d) == <<"Cannot set units on undefined field", d>>

\* What the claim says but for the "field"/"value" entry.
UnitsFollowDataspec(d) ==
    /\ BothSupplied(d) =>
           /\ ret.k = "raise" => ret.msg # UndefinedField(d)
           /\ ret.k = "return" =>
                  /\ d \in DOMAIN ret.v
                  /\ ret.v[d].k = "dict"
                  /\ "units" \in DOMAIN ret.v[d].v
                  /\ ret.v[d].v.units = inp.kwargs[UnitsName(d)]
                  /\ UnitsName(d) \notin DOMAIN ret.v
    /\ (HasKeyword(UnitsName(d)) /\ ~IsSupplied(d)) =>
           /\ ret.k = "raise"
           /\ ret.v = "RuntimeError"
           /\ OnlyUnitsUndefined(d) => ret.msg = UndefinedField(d)

\* C7 as stated: every dataspec name d is processed before d_units, so that
\* whenever both are supplied glyph_params[d] is a dict whose "units" entry
\* is the supplied d_units value, with "field" set for a column/string value
\* and "value" for a constant, no key d_units is in the result, and d_units
\* without d raises RuntimeError "Cannot set units on undefined field".
UnitsMergedIntoDataspec ==
    pc = "done" =>
        \A d \in DataspecsWithUnits :
            /\ UnitsFollowDataspec(d)
            /\ (BothSupplied(d) /\ ret.k = "return") =>
                   \E val \in SuppliedValues(d) : HasFieldOrValue(ret.v[d].v, d, val)

\* C7, amended: as stated, except that for the Text glyph class a string
\* value (other than a color constant of a ColorSpec) is wrapped in a
\* one-element list and stored under "value", not under "field".
UnitsMergedIntoDataspecText ==
    pc = "done" =>
        \A d \in DataspecsWithUnits :
            /\ UnitsFollowDataspec(d)
            /\ (BothSupplied(d) /\ ret.k = "return") =>
                   \E val \in SuppliedValues(d) : HasFieldOrValueText(ret.v[d].v, d, val)

\* A call that supplied the column x and x_units has returned the dict of x
\* with the field x and the supplied units.
UnitsMergedWitness ==
    /\ pc = "done"
    /\ ret.k = "return"
    /\ inp.glyphclass.name = "Circle"
    /\ inp.args # <<>>
    /\ inp.args[1].k = "list"
    /\ "x" \notin DOMAIN inp.kwargs
    /\ "x_units" \in DOMAIN inp.kwargs
    /\ ret.v["x"] = PyDict([field |-> PyStr("x"), units |-> PyStr("screen")])

(***************************************************************************)
(* _handle_1d_data_args                                                    *)
(***************************************************************************)
NdArray(items) == [k |-> "ndarray", v |-> items, ndim |-> 1]

\* np.arange(n)
Arange(n) == NdArray([i \in 1..n |-> i - 1])

\* len(s) of the strings of the model.
StrLen(s) ==
    CASE s = "colA" -> 4
      [] s = "sx" -> 2
      [] s = "sy" -> 2
      [] OTHER -> 0

\* len(ary)
PyLen(ary) == IF ary.k = "str" THEN StrLen(ary.v) ELSE Len(ary.v)

\* Lines 448-463: every argument becomes one array, a 2-D ndarray one array
\* per row; an argument of another type is dropped.
RECURSIVE Homogenize(_)
Homogenize(args) ==
    IF args = <<>> THEN <<>>
    ELSE LET arg == Head(args) IN
         (IF arg.k = "str" THEN <<arg>>
          ELSE IF arg.k = "ndarray" THEN (IF arg.ndim = 1 THEN <<arg>> ELSE arg.v)
          ELSE IF arg.k \in {"list", "tuple"} THEN <<arg>>
          ELSE IF arg.k = "num" THEN <<PyList(<<arg.v>>)>>
          ELSE <<>>) \o Homogenize(Tail(args))

\* Lines 468-469: the dummy index of a single array.
WithAutoindex(arrays, create_autoindex) ==
    IF create_autoindex /\ Len(arrays) = 1
    THEN <<Arange(PyLen(arrays[1]))>> \o arrays
    ELSE arrays

\* Lines 472-483: the name of every array; st is names and the data source.
RECURSIVE NameArrays(_, _, _, _, _)
NameArrays(arrays, i, create_autoindex, suggested_names, st) ==
    IF i > Len(arrays) THEN st
    ELSE LET ary == arrays[i]
             \* enumerate() counts from 0
             stored == IF i - 1 = 0 /\ create_autoindex
                       THEN AddNamed(st.datasource, ary, "_autoindex")
                       ELSE AddSeries(st.datasource, ary)
             next == IF ary.k = "str"
                     THEN [st EXCEPT !.names = Append(@, ary.v)]
                     ELSE IF i - 1 < Len(suggested_names)
                     THEN [st EXCEPT !.names = Append(@, suggested_names[i])]
                     ELSE [names |-> Append(st.names,
                                        stored.column_names[Len(stored.column_names)]),
                           datasource |-> stored]
         IN  NameArrays(arrays, i + 1, create_autoindex, suggested_names, next)

\* datasource is None or the caller's data source.
handle_1d_data_args(args, datasource, create_autoindex, suggested_names) ==
    LET source == IF datasource.k = "None" THEN ColumnDataSource(NewId) ELSE datasource.v
        arrays == WithAutoindex(Homogenize(args), create_autoindex)
    IN  NameArrays(arrays, 1, create_autoindex, suggested_names,
                   [names |-> <<>>, datasource |-> source])

Array1dArgs ==
    {PyList(<<3, 4>>), NdArray(<<5, 6, 7>>), PyStr("colA"), Num(5),
     [k |-> "ndarray", v |-> <<NdArray(<<1, 2>>), NdArray(<<8, 9>>)>>, ndim |-> 2],
     None}

SuggestedNames == {<<>>, <<"sx">>, <<"sx", "sy">>}

\* The columns the calls so far stored in the caller's data source, and
\* whether all of them used the defaults (create_autoindex, no suggested
\* names).
NoHistory == [stored |-> {}, defaults |-> TRUE, ncalls |-> 0]

InitData ==
    /\ pc = "call"
    /\ inp = NoCall
    /\ ret = NoCall
    /\ ds = CallerSource
    /\ hist = NoHistory

CallHandle1dDataArgs ==
    /\ hist.ncalls < MaxCalls
    /\ \E args \in SeqsUpTo(Array1dArgs, MaxArrays),
          datasource \in {None, [k |-> "ColumnDataSource", v |-> ds]},
          create_autoindex \in BOOLEAN,
          suggested_names \in SuggestedNames :
          LET out == handle_1d_data_args(args, datasource, create_autoindex,
                                         suggested_names)
              arrays == WithAutoindex(Homogenize(args), create_autoindex)
              shared == datasource.k # "None"
          IN  /\ inp' = [args |-> args, datasource |-> datasource,
                         create_autoindex |-> create_autoindex,
                         suggested_names |-> suggested_names]
              /\ ret' = Return(out)
              /\ ds' = IF shared THEN out.datasource ELSE ds
              /\ hist' = [stored |-> IF shared
                                     THEN hist.stored \cup
                                          {<<out.names[i], arrays[i]>> :
                                             i \in {j \in DOMAIN arrays :
                                                 /\ arrays[j].k # "str"
                                                 /\ out.names[j] \in DOMAIN out.datasource.data
                                                 /\ out.datasource.data[out.names[j]] = arrays[j]}}
                                     ELSE hist.stored,
                          defaults |-> hist.defaults /\ (shared =>
                                          create_autoindex /\ suggested_names = <<>>),
                          ncalls |-> hist.ncalls + 1]
    /\ pc' = "done"

NextData == CallHandle1dDataArgs

SpecData == InitData /\ [][NextData]_vars

\* The name refers, in the data source, to the array: a string names the
\* column itself, any other array is the data of the column.
RefersTo(source, name, ary) ==
    IF ary.k = "str" THEN name = ary.v
    ELSE name \in DOMAIN source.data /\ source.data[name] = ary

\* The length of an input array; of a column name, the length of the column.
ArrayLen(source, ary) ==
    IF ary.k = "str" THEN Len(source.data[ary.v].v) ELSE Len(ary.v)

HasLength(source, ary) == ary.k = "str" => ary.v \in DOMAIN source.data

HandleDone == pc = "done" /\ inp # NoCall

\* C6: _handle_1d_data_args returns one name per input array, in input
\* order, and the data source (a new one when none was passed, else the same
\* object); for exactly one array and create_autoindex, an index array
\* 0..len-1 of that array's length is generated, stored in the data source
\* and named first, so that two names are returned; for two or more arrays,
\* or without create_autoindex, no index array is generated.
NamesFollowArrays ==
    HandleDone =>
        LET arrays == Homogenize(inp.args)
            names == ret.v.names
            source == ret.v.datasource
        IN  /\ source.id = IF inp.datasource.k = "None" THEN NewId ELSE inp.datasource.v.id
            /\ IF inp.create_autoindex /\ Len(arrays) = 1
               THEN /\ Len(names) = 2
                    /\ names[1] \in DOMAIN source.data
                    /\ HasLength(source, arrays[1]) =>
                           source.data[names[1]] = Arange(ArrayLen(source, arrays[1]))
                    /\ RefersTo(source, names[2], arrays[1])
               ELSE /\ Len(names) = Len(arrays)
                    /\ \A i \in DOMAIN arrays : RefersTo(source, names[i], arrays[i])

\* C6 where the code agrees with it: no suggested names, and a single array
\* that is not a column name.
NamesFollowArraysDefault ==
    (/\ HandleDone
     /\ inp.suggested_names = <<>>
     /\ Len(Homogenize(inp.args)) = 1 => Homogenize(inp.args)[1].k # "str") =>
        LET arrays == Homogenize(inp.args)
            names == ret.v.names
            source == ret.v.datasource
        IN  /\ source.id = IF inp.datasource.k = "None" THEN NewId ELSE inp.datasource.v.id
            /\ IF inp.create_autoindex /\ Len(arrays) = 1
               THEN /\ Len(names) = 2
                    /\ names[1] \in DOMAIN source.data
                    /\ source.data[names[1]] = Arange(ArrayLen(source, arrays[1]))
                    /\ RefersTo(source, names[2], arrays[1])
               ELSE /\ Len(names) = Len(arrays)
                    /\ \A i \in DOMAIN arrays : RefersTo(source, names[i], arrays[i])

\* C8: after any sequence of _handle_1d_data_args calls that share one data
\* source (default create_autoindex, no suggested names), every column name
\* an earlier call returned still refers to the array that call stored under
\* it, and the name "_autoindex" is only ever given to a generated index
\* array, never to an array of the user.
SharedSourceKeepsColumns ==
    (HandleDone /\ hist.defaults) =>
        /\ \A pair \in hist.stored :
               pair[1] \in DOMAIN ds.data /\ ds.data[pair[1]] = pair[2]
        /\ (inp.create_autoindex /\ inp.suggested_names = <<>>) =>
               \A i \in DOMAIN ret.v.names :
                   ret.v.names[i] = "_autoindex" =>
                       i = 1 /\ Len(Homogenize(inp.args)) = 1

\* The two halves of C8, each on its own.
EarlierColumnsKept ==
    (HandleDone /\ hist.defaults) =>
        \A pair \in hist.stored :
            pair[1] \in DOMAIN ds.data /\ ds.data[pair[1]] = pair[2]

AutoindexIsGenerated ==
    (HandleDone /\ inp.create_autoindex /\ inp.suggested_names = <<>>) =>
        \A i \in DOMAIN ret.v.names :
            ret.v.names[i] = "_autoindex" => i = 1 /\ Len(Homogenize(inp.args)) = 1

====
